---- MODULE Spec2Model ----
(***************************************************************************)
(* The voting server of server/server.py: two module globals, CHOICES and   *)
(* VOTES, and two request handlers, index() (GET /) and vote(indices)       *)
(* (GET /vote/<indices>).  Text is a sequence of one-character strings.     *)
(***************************************************************************)
EXTENDS Integers, Sequences, FiniteSets, TLC

VARIABLES
    listing,    \* what os.listdir(CODE) returned at startup
    CHOICES,    \* server.py:14, the names listed at startup, hidden ones dropped
    VOTES,      \* server.py:15, one counter per choice
    route,      \* the handler that served the request just answered, or "none"
    indices,    \* vote(): the path segment of the request just answered
    body,       \* vote(): the text returned, a sequence of pieces
    applied,    \* vote(): the values of `index` at each execution of line 41
    model,      \* index(): the list of Entry handed to the template
    elapsed,    \* index(): the uptime handed to the template
    old,        \* VOTES as the request just answered found it
    prevModel,  \* the model of the render answered before, if no vote came since
    tally,      \* per choice, the tokens applied for it since startup
    threads     \* the requests being served at the same time, when there are any

vars == <<listing, CHOICES, VOTES, route, indices, body, applied, model, elapsed, old, prevModel,
         tally, threads>>

-----------------------------------------------------------------------------
\* Bounds of the model.

\* A vote request carries at most this many tokens.
MaxTokens == 3

\* Vote requests are accepted while fewer than this many votes are recorded.
MaxVotes == 2

\* The directory listings the server may start from (os.listdir(CODE)); names
\* in a directory are distinct.
Listings ==
    { << <<"A">>, <<".", "g">>, <<"B">>, <<"C">> >>, << <<"B">>, <<"A", "b">> >> }

\* The tokens requests are built from: the indices 0..3, a negative one, an
\* integer not in canonical form, a word, and the empty token.
TokenTexts ==
    { <<"0">>, <<"1">>, <<"2">>, <<"3">>, <<"-", "1">>, <<"0", "3">>, <<"x">>, <<>> }

\* The separators requests are built with.
Separators ==
    { <<",">>, <<" ">> }

\* The uptimes a render may observe (seconds).
Uptimes ==
    { 0, 1 }

-----------------------------------------------------------------------------
\* Text helpers.

Digits == <<"0", "1", "2", "3", "4", "5", "6", "7", "8", "9">>

IsDigit(c) == \E d \in 1..Len(Digits) : Digits[d] = c

DigitValue(c) == (CHOOSE d \in 1..Len(Digits) : Digits[d] = c) - 1

IsSpace(c) == c = " "

RECURSIVE SkipSpaces(_, _)
\* The first position from i on that holds no whitespace (what \s* consumes).
SkipSpaces(s, i) ==
    IF i <= Len(s) /\ IsSpace(s[i]) THEN SkipSpaces(s, i + 1) ELSE i

\* Where the match of  \s*,\s*|\s+  that starts at position i ends (exclusive);
\* i itself when the pattern does not match there.
SepEnd(s, i) ==
    LET j == SkipSpaces(s, i)
    IN  IF j <= Len(s) /\ s[j] = "," THEN SkipSpaces(s, j + 1)
        ELSE IF j > i THEN j
        ELSE i

RECURSIVE SplitFrom(_, _, _)
SplitFrom(s, i, cur) ==
    IF i > Len(s) THEN <<cur>>
    ELSE LET e == SepEnd(s, i)
         IN  IF e > i THEN <<cur>> \o SplitFrom(s, e, <<>>)
             ELSE SplitFrom(s, i + 1, Append(cur, s[i]))

\* re.split(r'\s*,\s*|\s+', s)
Split(s) == SplitFrom(s, 1, <<>>)

RECURSIVE DigitsValue(_, _)
\* The value of the digit string s, acc being the value of the digits read.
DigitsValue(s, acc) ==
    IF s = <<>> THEN acc
    ELSE DigitsValue(Tail(s), 10 * acc + DigitValue(Head(s)))

AllDigits(s) == s # <<>> /\ \A k \in 1..Len(s) : IsDigit(s[k])

\* int(token): an optional sign and decimal digits; anything else raises
\* ValueError (ok = FALSE).
IntParse(token) ==
    LET signed == token # <<>> /\ Head(token) \in {"-", "+"}
        digits == IF signed THEN Tail(token) ELSE token
    IN  IF AllDigits(digits)
        THEN [ok |-> TRUE,
              val |-> IF signed /\ Head(token) = "-"
                      THEN 0 - DigitsValue(digits, 0)
                      ELSE DigitsValue(digits, 0)]
        ELSE [ok |-> FALSE, val |-> 0]

RECURSIVE FormatNat(_)
FormatNat(n) ==
    IF n < 10 THEN <<Digits[n + 1]>>
    ELSE FormatNat(n \div 10) \o <<Digits[(n % 10) + 1]>>

\* '{0}'.format(n) for an int n
FormatInt(n) == IF n < 0 THEN <<"-">> \o FormatNat(0 - n) ELSE FormatNat(n)

RECURSIVE Join(_, _)
\* sep.join(parts), as the sequence of its pieces laid end to end
Join(sep, parts) ==
    IF parts = <<>> THEN <<>>
    ELSE IF Len(parts) = 1 THEN parts[1]
    ELSE parts[1] \o sep \o Join(sep, Tail(parts))

-----------------------------------------------------------------------------
\* Startup (server.py:14-15).

RECURSIVE ListChoices(_)
\* [i for i in os.listdir(CODE) if not i.startswith('.')]
ListChoices(entries) ==
    IF entries = <<>> THEN <<>>
    ELSE IF Head(entries) # <<>> /\ Head(Head(entries)) = "."
         THEN ListChoices(Tail(entries))
         ELSE <<Head(entries)>> \o ListChoices(Tail(entries))

\* [0 for _ in CHOICES]
ZeroVotes(choices) == [k \in 1..Len(choices) |-> 0]

-----------------------------------------------------------------------------
\* index() (server.py:19-28).  A table row is the tuple (name, index, votes);
\* Python's i[0], i[1], i[2] are [1], [2], [3] here, and list positions are
\* 1-based here while the values of `index` and `rank` stay 0-based.

\* table, after the loop of lines 22-23
Table(choices, votes) ==
    [k \in 1..Len(votes) |-> <<choices[k], k - 1, votes[k]>>]

\* key=lambda i: i[1], the index instead of the votes
SortKey_Index(row) == row[2]

\* key=lambda i: i[2]
SortKey(row) == row[3]

\* rows with row inserted behind every row whose key is at least its own:
\* descending keys, equal keys in order of arrival
InsertDesc(rows, row) ==
    LET ahead == {k \in 1..Len(rows) : SortKey(rows[k]) >= SortKey(row)}
        n     == Cardinality(ahead)
    IN  SubSeq(rows, 1, n) \o <<row>> \o SubSeq(rows, n + 1, Len(rows))

\* rows with row inserted behind every row whose key is at most its own
InsertAsc(rows, row) ==
    LET ahead == {k \in 1..Len(rows) : SortKey(rows[k]) <= SortKey(row)}
        n     == Cardinality(ahead)
    IN  SubSeq(rows, 1, n) \o <<row>> \o SubSeq(rows, n + 1, Len(rows))

RECURSIVE SortedAscFrom(_, _)
SortedAscFrom(rows, acc) ==
    IF rows = <<>> THEN acc
    ELSE SortedAscFrom(Tail(rows), InsertAsc(acc, Head(rows)))

RECURSIVE SortedDescFrom(_, _)
SortedDescFrom(rows, acc) ==
    IF rows = <<>> THEN acc
    ELSE SortedDescFrom(Tail(rows), InsertDesc(acc, Head(rows)))

Reverse(rows) == [k \in 1..Len(rows) |-> rows[Len(rows) + 1 - k]]

\* sorted(table, key=...) without reverse=True
SortedDesc_Ascending(table) == SortedAscFrom(table, <<>>)

\* sorted(table, key=...)[::-1]: descending, equal keys in reverse order
SortedDesc_Reversed(table) == Reverse(SortedAscFrom(table, <<>>))

\* sorted(table, key=lambda i: i[2], reverse=True): descending and stable
SortedDesc(table) == SortedDescFrom(table, <<>>)

\* ranked, line 24: the names in sorted order
Ranked(table) ==
    LET sorted == SortedDesc(table)
    IN  [k \in 1..Len(sorted) |-> sorted[k][1]]

\* ranked.index(name): the 0-based position of the first occurrence
RankedIndex(ranked, name) ==
    (CHOOSE p \in 1..Len(ranked) :
        /\ ranked[p] = name
        /\ \A q \in 1..(p - 1) : ranked[q] # name) - 1

Entry(rank, name, index, votes) ==
    [rank |-> rank, name |-> name, index |-> index, votes |-> votes]

\* model, line 25: one Entry per row of table, in the order of table
RenderModel(choices, votes) ==
    LET table  == Table(choices, votes)
        ranked == Ranked(table)
    IN  [k \in 1..Len(table) |->
            Entry(RankedIndex(ranked, table[k][1]), table[k][1], table[k][2], table[k][3])]

-----------------------------------------------------------------------------
\* vote(indices) (server.py:31-45).

\* 1-based position of list[i] in a list of n elements, as Python indexes a
\* list: a negative i counts from the end; 0 stands for IndexError.
ListPos(n, i) ==
    IF 0 <= i /\ i < n THEN i + 1
    ELSE IF i < 0 /\ 0 - i <= n THEN n + i + 1
    ELSE 0

\* `index < len(VOTES)`, the lower bound forgotten
ValidIndex_NoLowerBound(index, n) == index < n

\* 0 <= index < len(VOTES), line 37
ValidIndex(index, n) == 0 <= index /\ index < n

\* VOTES[index] = 1
Increment_Assign(votes, index) ==
    [votes EXCEPT ![ListPos(Len(votes), index)] = 1]

\* VOTES[index] -= 1
Increment_Minus(votes, index) ==
    [votes EXCEPT ![ListPos(Len(votes), index)] = @ - 1]

\* VOTES[index] += 1, line 41
Increment(votes, index) ==
    [votes EXCEPT ![ListPos(Len(votes), index)] = @ + 1]

\* chosen.insert(0, name)
ChosenAppend_Front(chosen, name) == <<name>> \o chosen

\* chosen.append(name), line 42
ChosenAppend(chosen, name) == Append(chosen, name)

\* 'Invalid index: {0}'.format(index), line 40: `index` is the int when int()
\* succeeded and the range check raised, and still the token when int() raised
InvalidIndex(token) ==
    LET parsed == IntParse(token)
    IN  <<"Invalid index: ">> \o (IF parsed.ok THEN FormatInt(parsed.val) ELSE token)

\* 'Thanks for voting. You chose: {0}'.format(', '.join(chosen)), line 45
Thanks(chosen) ==
    <<"Thanks for voting. You chose: ">> \o Join(<<",", " ">>, chosen)

\* The locals of vote() and the list it mutates: returned is TRUE once a
\* return statement (or an uncaught exception) has ended the call.
VoteStart(votes) ==
    [votes |-> votes, chosen |-> <<>>, applied |-> <<>>, body |-> <<>>, returned |-> FALSE]

\* `except ValueError: continue`: an invalid token is skipped
VoteStep_SkipInvalid(st, token, choices) ==
    LET parsed == IntParse(token)
    IN  IF ~parsed.ok \/ ~ValidIndex(parsed.val, Len(st.votes)) THEN st
        ELSE [st EXCEPT !.votes   = Increment(st.votes, parsed.val),
                        !.chosen  = ChosenAppend(st.chosen,
                                        choices[ListPos(Len(choices), parsed.val)]),
                        !.applied = Append(st.applied, parsed.val)]

\* One iteration of the loop, lines 35-43, for one token.
VoteStep(st, token, choices) ==
    LET parsed == IntParse(token)
    IN  IF ~parsed.ok \/ ~ValidIndex(parsed.val, Len(st.votes))
        THEN [st EXCEPT !.body = InvalidIndex(token), !.returned = TRUE]
        ELSE IF ListPos(Len(st.votes), parsed.val) = 0
        THEN [st EXCEPT !.body = <<"500 Internal Server Error">>, !.returned = TRUE]
        ELSE [st EXCEPT !.votes   = Increment(st.votes, parsed.val),
                        !.chosen  = ChosenAppend(st.chosen,
                                        choices[ListPos(Len(choices), parsed.val)]),
                        !.applied = Append(st.applied, parsed.val)]

RECURSIVE VoteLoop(_, _, _)
\* The for loop of line 34 over the tokens left, and the return of line 45.
VoteLoop(st, tokens, choices) ==
    IF st.returned THEN st
    ELSE IF tokens = <<>> THEN [st EXCEPT !.body = Thanks(st.chosen), !.returned = TRUE]
    ELSE VoteLoop(VoteStep(st, Head(tokens), choices), Tail(tokens), choices)

\* vote(indices) as a whole, on the counters votes
Vote(votes, text, choices) == VoteLoop(VoteStart(votes), Split(text), choices)

-----------------------------------------------------------------------------
\* Requests.

TokenLists == UNION {[1..n -> TokenTexts] : n \in 1..MaxTokens}

\* The path segments of the vote requests: tokens joined by a separator.  The
\* route /vote/<indices> matches a non-empty segment only.
Requests ==
    {Join(sep, tokens) : sep \in Separators, tokens \in TokenLists} \ {<<>>}

RECURSIVE Sum(_)
Sum(votes) == IF votes = <<>> THEN 0 ELSE Head(votes) + Sum(Tail(votes))

-----------------------------------------------------------------------------
\* The ledger of applied tokens, kept beside the program: a token is applied
\* when it is a valid index and no token before it in its request is invalid.

RECURSIVE AppliedTokens(_, _)
\* The values of the tokens that come before the first token that is not an
\* integer in [0, n).
AppliedTokens(tokens, n) ==
    IF tokens = <<>> THEN <<>>
    ELSE LET p == IntParse(Head(tokens))
         IN  IF p.ok /\ p.val >= 0 /\ p.val < n
             THEN <<p.val>> \o AppliedTokens(Tail(tokens), n)
             ELSE <<>>

\* The ledger t with the values vals entered.
Tallied(t, vals) ==
    [i \in 1..Len(t) |-> t[i] + Cardinality({k \in 1..Len(vals) : vals[k] = i - 1})]

-----------------------------------------------------------------------------
\* The state machine: requests are served one at a time.

Init ==
    /\ listing \in Listings
    /\ CHOICES = ListChoices(listing)
    /\ VOTES = ZeroVotes(CHOICES)
    /\ route = "none"
    /\ indices = <<>>
    /\ body = <<>>
    /\ applied = <<>>
    /\ model = <<>>
    /\ elapsed = 0
    /\ old = <<>>
    /\ prevModel = <<>>
    /\ tally = ZeroVotes(CHOICES)
    /\ threads = <<>>

\* index() with VOTES.sort(reverse=True) done in place before the table is built
index_SortsInPlace ==
    /\ route = "none"
    /\ \E up \in Uptimes :
        LET sorted == SortedDesc(Table(CHOICES, VOTES))
            votes  == [k \in 1..Len(sorted) |-> sorted[k][3]]
        IN  /\ VOTES' = votes
            /\ model' = RenderModel(CHOICES, votes)
            /\ elapsed' = up
    /\ route' = "index"
    /\ old' = VOTES
    /\ UNCHANGED <<listing, CHOICES, indices, body, applied, prevModel, tally, threads>>

\* GET /
index ==
    /\ route = "none"
    /\ \E up \in Uptimes :
        /\ model' = RenderModel(CHOICES, VOTES)
        /\ elapsed' = up
    /\ route' = "index"
    /\ old' = VOTES
    /\ UNCHANGED <<listing, CHOICES, VOTES, indices, body, applied, prevModel, tally,
                   threads>>

\* GET /vote/<indices>
vote ==
    /\ route = "none"
    /\ Sum(VOTES) < MaxVotes
    /\ \E text \in Requests :
        LET st == Vote(VOTES, text, CHOICES)
        IN  /\ indices' = text
            /\ VOTES' = st.votes
            /\ body' = st.body
            /\ applied' = st.applied
            /\ tally' = Tallied(tally, AppliedTokens(Split(text), Len(CHOICES)))
    /\ route' = "vote"
    /\ old' = VOTES
    /\ prevModel' = <<>>
    /\ UNCHANGED <<listing, CHOICES, model, elapsed, threads>>

\* The response is sent and the server waits for the next request.
Respond ==
    /\ route # "none"
    /\ route' = "none"
    /\ indices' = <<>>
    /\ body' = <<>>
    /\ applied' = <<>>
    /\ model' = <<>>
    /\ elapsed' = 0
    /\ old' = <<>>
    /\ prevModel' = IF route = "index" THEN model ELSE <<>>
    /\ UNCHANGED <<listing, CHOICES, VOTES, tally, threads>>

Next == index \/ vote \/ Respond

Spec == Init /\ [][Next]_vars

-----------------------------------------------------------------------------
\* The state machine with requests served at the same time: every thread runs
\* vote(), and a thread switch may fall between any two steps.  The statement
\* VOTES[index] += 1 of line 41 is two steps, the load of VOTES[index] and
\* the store of the sum.

\* The server runs this many threads, each serving one vote request.
NumThreads == 2

\* The path segments of the requests served at the same time.
ConcRequests ==
    { <<"0">>, <<"0", ",", "0">>, <<"0", ",", "1">>, <<"1", ",", "x", ",", "0">> }

\* The locals of a thread's call of vote(): pc is where it stands, tokens the
\* part of the list of line 34 not yet iterated, tmp the value loaded.
IdleThread ==
    [pc |-> "idle", tokens |-> <<>>, index |-> 0, tmp |-> 0,
     chosen |-> <<>>, applied |-> <<>>, body |-> <<>>]

InitConc ==
    /\ listing \in Listings
    /\ CHOICES = ListChoices(listing)
    /\ VOTES = ZeroVotes(CHOICES)
    /\ route = "none"
    /\ indices = <<>>
    /\ body = <<>>
    /\ applied = <<>>
    /\ model = <<>>
    /\ elapsed = 0
    /\ old = <<>>
    /\ prevModel = <<>>
    /\ tally = ZeroVotes(CHOICES)
    /\ threads = [t \in 1..NumThreads |-> IdleThread]

\* VOTES[index] += 1 under a lock: the sum is taken from the counter as it is
\* at the store
StoreIncrement_Atomic(votes, i, tmp) ==
    [votes EXCEPT ![ListPos(Len(votes), i)] = @ + 1]

\* The store of VOTES[index] += 1: the value loaded, plus one.
StoreIncrement(votes, i, tmp) ==
    [votes EXCEPT ![ListPos(Len(votes), i)] = tmp + 1]

\* Lines 32-34: the call starts and splits its path segment.
Accept(t) ==
    /\ threads[t].pc = "idle"
    /\ \E text \in ConcRequests :
        threads' = [threads EXCEPT ![t].pc = "next", ![t].tokens = Split(text)]
    /\ UNCHANGED <<listing, CHOICES, VOTES, route, indices, body, applied, model,
                   elapsed, old, prevModel, tally>>

\* Lines 34-40 and 45: the loop takes its next token and checks it, or ends.
NextToken(t) ==
    /\ threads[t].pc = "next"
    /\ LET th == threads[t]
           parsed == IntParse(Head(th.tokens))
       IN  threads' =
             IF th.tokens = <<>>
             THEN [threads EXCEPT ![t].pc = "done", ![t].body = Thanks(th.chosen)]
             ELSE IF ~parsed.ok \/ ~ValidIndex(parsed.val, Len(VOTES))
             THEN [threads EXCEPT ![t].pc = "done",
                                  ![t].body = InvalidIndex(Head(th.tokens))]
             ELSE [threads EXCEPT ![t].pc = "load", ![t].index = parsed.val,
                                  ![t].tokens = Tail(th.tokens)]
    /\ UNCHANGED <<listing, CHOICES, VOTES, route, indices, body, applied, model,
                   elapsed, old, prevModel, tally>>

\* Line 41, first half: VOTES[index] is loaded.
Load(t) ==
    /\ threads[t].pc = "load"
    /\ threads' = [threads EXCEPT
                     ![t].pc = "store",
                     ![t].tmp = VOTES[ListPos(Len(VOTES), threads[t].index)]]
    /\ UNCHANGED <<listing, CHOICES, VOTES, route, indices, body, applied, model,
                   elapsed, old, prevModel, tally>>

\* Line 41, second half, and lines 42-43: the sum is stored, the name kept.
Store(t) ==
    /\ threads[t].pc = "store"
    /\ VOTES' = StoreIncrement(VOTES, threads[t].index, threads[t].tmp)
    /\ threads' = [threads EXCEPT
                     ![t].pc = "next",
                     ![t].chosen = ChosenAppend(@,
                         CHOICES[ListPos(Len(CHOICES), threads[t].index)]),
                     ![t].applied = Append(@, threads[t].index)]
    /\ tally' = Tallied(tally, <<threads[t].index>>)
    /\ UNCHANGED <<listing, CHOICES, route, indices, body, applied, model,
                   elapsed, old, prevModel>>

NextConc ==
    \E t \in 1..NumThreads : Accept(t) \/ NextToken(t) \/ Load(t) \/ Store(t)

SpecConc == InitConc /\ [][NextConc]_vars

-----------------------------------------------------------------------------
\* Vocabulary of the properties.

\* N, the number of choices
N == Len(CHOICES)

\* The tokens of the vote request just answered.
Tokens == Split(indices)

\* The tokens of the request as int() reads them.
Parsed ==
    LET tokens == Tokens
    IN  [k \in 1..Len(tokens) |-> IntParse(tokens[k])]

\* A parsed token that is an integer in [0, N).
IsIndex(p) == p.ok /\ p.val >= 0 /\ p.val < N

\* How often index i occurs among the first n of the parsed tokens ps.
Occurrences(ps, i, n) ==
    Cardinality({k \in 1..n : ps[k].ok /\ ps[k].val = i})

AllValid(ps) == \A k \in 1..Len(ps) : IsIndex(ps[k])

\* The position of the first invalid one of the parsed tokens ps, of which
\* one is invalid.
FirstInvalid(ps) ==
    CHOOSE p \in 1..Len(ps) :
        ~IsIndex(ps[p]) /\ \A k \in 1..(p - 1) : IsIndex(ps[k])

RECURSIVE ListedNames(_, _)
\* The names a text lists, separated by ", ": cur is the name being read.
ListedNames(text, cur) ==
    IF text = <<>> THEN <<cur>>
    ELSE IF Len(text) >= 2 /\ text[1] = "," /\ text[2] = " "
         THEN <<cur>> \o ListedNames(Tail(Tail(text)), <<>>)
         ELSE ListedNames(Tail(text), Append(cur, Head(text)))

-----------------------------------------------------------------------------
\* C1: after a vote request whose tokens are all integers in [0, N), every
\* counter i equals its value before the request plus the number of
\* occurrences of i among the tokens; a counter whose index does not occur is
\* unchanged.
C1_EachOccurrenceCounts ==
    route = "vote" =>
        LET ps == Parsed
        IN  AllValid(ps) =>
                \A i \in 0..(N - 1) :
                    /\ VOTES[i + 1] = old[i + 1] + Occurrences(ps, i, Len(ps))
                    /\ (Occurrences(ps, i, Len(ps)) = 0 => VOTES[i + 1] = old[i + 1])

\* A request that names one index twice and leaves another one out, served
\* when votes were recorded before.
C1_Witness ==
    /\ route = "vote" /\ AllValid(Parsed)
    /\ \E i, j \in 0..(N - 1) :
        /\ Occurrences(Parsed, i, Len(Parsed)) = 2 /\ old[i + 1] > 0
        /\ VOTES[i + 1] = old[i + 1] + 2
        /\ Occurrences(Parsed, j, Len(Parsed)) = 0 /\ VOTES[j + 1] = old[j + 1]

\* C2: a vote request stops at its first invalid token: the valid tokens
\* before it have each incremented their counter by 1, and no token after it
\* changes any counter.
C2_StopsAtFirstInvalid ==
    route = "vote" =>
        LET ps == Parsed
        IN  ~AllValid(ps) =>
                LET first == FirstInvalid(ps)
                IN  \A i \in 0..(N - 1) :
                        VOTES[i + 1] = old[i + 1] + Occurrences(ps, i, first - 1)

\* A valid token, then an invalid one, then a valid one for another index.
C2_Witness ==
    /\ route = "vote" /\ Len(Parsed) = 3
    /\ IsIndex(Parsed[1]) /\ ~IsIndex(Parsed[2]) /\ IsIndex(Parsed[3])
    /\ Parsed[3].val # Parsed[1].val
    /\ VOTES[Parsed[1].val + 1] = old[Parsed[1].val + 1] + 1
    /\ VOTES[Parsed[3].val + 1] = old[Parsed[3].val + 1]

\* C3, as stated: the error response to an invalid token is 'Invalid index: '
\* followed by that token (read for the first invalid token of the request).
C3_NamesTheTokenText ==
    route = "vote" =>
        LET ps == Parsed
        IN  ~AllValid(ps) =>
                body = <<"Invalid index: ">> \o Tokens[FirstInvalid(ps)]

\* C3, amended: the error response to the first invalid token is
\* 'Invalid index: ' followed by the token itself when it is no integer, and
\* by the decimal form of its value when it is an integer outside [0, N); the
\* token increments no counter (the counters grow by the number of valid
\* tokens before it and by nothing else), and a request that starts with it
\* leaves every counter unchanged.
C3_InvalidTokenRejected ==
    route = "vote" =>
        LET ps == Parsed
        IN  ~AllValid(ps) =>
                LET first == FirstInvalid(ps)
                IN  /\ body = <<"Invalid index: ">> \o
                                (IF ps[first].ok THEN FormatInt(ps[first].val)
                                                 ELSE Tokens[first])
                    /\ Sum(VOTES) = Sum(old) + (first - 1)
                    /\ (first = 1 => VOTES = old)

\* A request of one negative index, served when the last counter was not 0.
C3_Witness ==
    /\ route = "vote" /\ Len(Parsed) = 1
    /\ Parsed[1].ok /\ Parsed[1].val < 0
    /\ body = <<"Invalid index: ", "-", "1">>
    /\ old[N] > 0 /\ VOTES = old

\* C4: the confirmation of a vote request whose tokens are all valid lists
\* the names of the choices in the order of the tokens, one name per token:
\* the k-th name is CHOICES[token k].
C4_ConfirmationInRequestOrder ==
    route = "vote" =>
        LET ps == Parsed
        IN  AllValid(ps) =>
                /\ Head(body) = "Thanks for voting. You chose: "
                /\ ListedNames(Tail(body), <<>>) =
                       [k \in 1..Len(ps) |-> CHOICES[ps[k].val + 1]]

\* Three tokens, an index repeated after another one.
C4_Witness ==
    /\ route = "vote" /\ AllValid(Parsed) /\ Len(Parsed) = 3
    /\ Parsed[1].val = Parsed[3].val /\ Parsed[1].val # Parsed[2].val
    /\ Len(ListedNames(Tail(body), <<>>)) = 3

-----------------------------------------------------------------------------
C7_TiesByIndexOrder ==
    route = "index" =>
        \A a, b \in 1..Len(model) :
            (model[a].index < model[b].index /\ model[a].votes = model[b].votes)
                => model[a].rank < model[b].rank

\* Two choices tied on a count above zero, behind a choice of larger index.
C7_Witness ==
    /\ route = "index" /\ Len(model) = 3
    /\ model[1].votes = model[2].votes /\ model[1].votes > 0
    /\ model[3].votes > model[1].votes
    /\ model[3].rank = 0 /\ model[1].rank = 1 /\ model[2].rank = 2

\* C8: a render leaves every counter of VOTES and the list CHOICES as they
\* were, and renders the entries of the render before it when no vote was
\* served in between.
C8_RenderHasNoSideEffect ==
    [][(route = "none" /\ route' = "index") =>
            /\ VOTES' = VOTES
            /\ CHOICES' = CHOICES
            /\ (prevModel # <<>> => model' = prevModel)]_vars

\* The second of two renders in a row, with votes recorded.
C8_Witness ==
    /\ route = "index"
    /\ prevModel # <<>> /\ model = prevModel
    /\ VOTES = old /\ Sum(VOTES) > 1

\* C9: the counters start at zero; no step decreases or resets a counter, and
\* the only steps that change one are vote requests, which add 1 per token
\* they apply.
C9_CountersOnlyGrow ==
    /\ \A k \in 1..Len(VOTES) : VOTES[k] = 0
    /\ [][/\ \A k \in 1..Len(VOTES) : VOTES'[k] >= VOTES[k]
          /\ (VOTES' # VOTES =>
                /\ route' = "vote"
                /\ Sum(VOTES') = Sum(VOTES) + Len(applied'))]_vars

\* A vote request that raised a counter which earlier requests had raised.
C9_Witness ==
    /\ route = "vote"
    /\ \E k \in 1..Len(VOTES) : old[k] > 0 /\ VOTES[k] > old[k]

\* C10: there are as many counters as choices, the choices are those listed
\* at startup, and every index at which a counter is incremented lies in
\* [0, N).
C10_CountersMatchChoices ==
    /\ Len(VOTES) = Len(CHOICES)
    /\ CHOICES = ListChoices(listing)
    /\ \A k \in 1..Len(applied) : applied[k] >= 0 /\ applied[k] < Len(VOTES)

\* A request that incremented the first and the last counter and then met an
\* index just past the end.
C10_Witness ==
    /\ route = "vote" /\ Len(listing) > Len(CHOICES)
    /\ applied = <<0, N - 1>>
    /\ Len(Parsed) = 3 /\ Parsed[3].ok /\ Parsed[3].val = N

-----------------------------------------------------------------------------
\* C11: every vote request is answered with exactly one response, the
\* confirmation or the invalid-index error: the confirmation if and only if
\* every token is a valid index in [0, N), the error if and only if at least
\* one token is invalid.
C11_ConfirmationIffAllValid ==
    route = "vote" =>
        LET ps == Parsed
        IN  /\ body # <<>>
            /\ Head(body) \in {"Thanks for voting. You chose: ", "Invalid index: "}
            /\ (Head(body) = "Thanks for voting. You chose: ") <=> AllValid(ps)
            /\ (Head(body) = "Invalid index: ") <=> ~AllValid(ps)

\* A request answered with the error after two of its tokens were applied.
C11_Witness ==
    /\ route = "vote" /\ Len(Parsed) = 3
    /\ IsIndex(Parsed[1]) /\ IsIndex(Parsed[2]) /\ ~IsIndex(Parsed[3])
    /\ Head(body) = "Invalid index: "
    /\ Len(applied) = 2

-----------------------------------------------------------------------------
\* C13: with requests served one at a time, counter i equals the number of
\* applied tokens of value i (all tokens of the requests that were valid
\* throughout, and the valid tokens before the first invalid one of the
\* others), and the counters add up to the number of applied tokens.
C13_VotesConserved ==
    /\ \A i \in 1..Len(VOTES) : VOTES[i] = tally[i]
    /\ Sum(VOTES) = Sum(tally)

\* A failed request that applied a token, after votes of earlier requests.
C13_Witness ==
    /\ route = "vote" /\ ~AllValid(Parsed)
    /\ Len(applied) >= 1 /\ Sum(old) > 0
    /\ Sum(tally) = Sum(old) + Len(applied)
    /\ \E i, j \in 1..Len(VOTES) : i # j /\ tally[i] > 0 /\ tally[j] > 0

-----------------------------------------------------------------------------
\* C12: with vote requests served at the same time, VOTES[index] += 1 is not
\* synchronized: a thread stores the value it loaded plus one whatever was
\* stored since, so a counter never exceeds the votes applied for it but may
\* fall short of them: a lost update is reachable.
C12_UnsynchronizedIncrement ==
    /\ [](\A i \in 1..Len(VOTES) : VOTES[i] <= tally[i])
    /\ [][\A t \in 1..NumThreads :
            (threads[t].pc = "store" /\ threads'[t].pc = "next") =>
                VOTES'[threads[t].index + 1] = threads[t].tmp + 1]_vars

\* Two requests that each applied a vote for the same index and were both
\* confirmed, the counter of that index being below the votes applied.
C12_Witness ==
    \E t, u \in 1..NumThreads :
        /\ t # u
        /\ threads[t].pc = "done" /\ threads[u].pc = "done"
        /\ Head(threads[t].body) = "Thanks for voting. You chose: "
        /\ Head(threads[u].body) = "Thanks for voting. You chose: "
        /\ \E i \in 1..Len(VOTES) :
            /\ \E k \in 1..Len(threads[t].applied) : threads[t].applied[k] = i - 1
            /\ \E k \in 1..Len(threads[u].applied) : threads[u].applied[k] = i - 1
            /\ VOTES[i] < tally[i]

====
